---- MODULE Spec2Model ----
(***************************************************************************)
(* Model of the torch-pme / meshlode reciprocal-space core:                *)
(*   - the reciprocal lattice generator   (torchpme/lib/kvectors.py)       *)
(*   - the mesh interpolator              (torchpme/lib/mesh_interpolator) *)
(*   - the Ewald direct-sum calculator    (meshlode/calculators/ewald...)  *)
(*   - the Fourier space convolution cache                                 *)
(* Real numbers are exact rationals [n, d] in lowest terms with d > 0.     *)
(* Reciprocal vectors are stored in units of 2*pi, so the entry written    *)
(* here as r stands for the program's value 2*pi*r.                        *)
(* Tensors are functions over 0-based index ranges, as in the source.      *)
(***************************************************************************)
EXTENDS Integers, Sequences, FiniteSets, TLC

VARIABLES
    interp,     \* the MeshInterpolator object: its attributes
    computed,   \* whether compute_interpolation_weights has run on it
    ret,        \* the last call on the interpolator and what it returned
    w1d,        \* one call of _compute_1d_weights: order, offset and result
    kv,         \* one call of a k-vector generator: arguments and result
    calc,       \* the Ewald calculator: constructor arguments, then attributes
    potential,  \* one call of the calculator on a system: inputs and result
    fsc,        \* the FourierSpaceConvolution object: its kernel cache
    conv,       \* the last compute call on it: arguments and result
    mi,         \* the construction of a MeshInterpolator: arguments, outcome
    dist        \* one call of distances: arguments and result

vars == <<interp, computed, ret, w1d, kv, calc, potential, fsc, conv, mi, dist>>

(* a component that takes no part in the specification at hand *)
Unused == [pc |-> "unused"]

(* ------------------------------------------------------------ bounds *)
MaxNs == 4
MaxMultiple == 2
MaxOffsetDen == 6
MaxMesh == 1
MaxCoord == 1

(* ------------------------------------------------- exact arithmetic *)
Abs(n) == IF n < 0 THEN -n ELSE n

RECURSIVE GCD(_, _)
GCD(a, b) == IF b = 0 THEN a ELSE GCD(b, a % b)

Rat(n, d) ==
    LET g == GCD(Abs(n), Abs(d))
        s == IF d < 0 THEN -1 ELSE 1
    IN  [n |-> s * (n \div g), d |-> s * (d \div g)]

RInt(k) == [n |-> k, d |-> 1]
(* the sum, over the least common denominator *)
RAdd(a, b) ==
    LET g == GCD(a.d, b.d)
    IN  Rat(a.n * (b.d \div g) + b.n * (a.d \div g), (a.d \div g) * b.d)
RNeg(a) == [n |-> -a.n, d |-> a.d]
RSub(a, b) == RAdd(a, RNeg(b))
(* the product, with the common factors cancelled before multiplying *)
RMul(a, b) ==
    LET g1 == GCD(Abs(a.n), b.d)
        g2 == GCD(Abs(b.n), a.d)
    IN  [n |-> (a.n \div g1) * (b.n \div g2), d |-> (a.d \div g2) * (b.d \div g1)]
RInv(a) == Rat(a.d, a.n)
RDiv(a, b) == RMul(a, RInv(b))

RECURSIVE FracLe(_, _, _, _)
(* x1/y1 <= x2/y2 for x >= 0 and y > 0, by comparing continued fractions *)
FracLe(x1, y1, x2, y2) ==
    IF x1 \div y1 # x2 \div y2 THEN x1 \div y1 < x2 \div y2
    ELSE IF x1 % y1 = 0 THEN TRUE
    ELSE IF x2 % y2 = 0 THEN FALSE
    ELSE FracLe(y2, x2 % y2, y1, x1 % y1)
RLe(a, b) == a.n * b.d <= b.n * a.d
RLt(a, b) == a.n * b.d < b.n * a.d

(* torch.floor / torch.ceil *)
RFloor(a) == a.n \div a.d
RCeil(a) == -((-a.n) \div a.d)

(* rounding with halves going up *)
RoundHalfUp(a) == (2 * a.n + a.d) \div (2 * a.d)

(* torch.round: halves go to the even neighbour *)
RRound(a) ==
    LET f == a.n \div a.d
        twice == 2 * (a.n - f * a.d)
    IN  IF twice < a.d THEN f
        ELSE IF twice > a.d THEN f + 1
        ELSE IF f % 2 = 0 THEN f ELSE f + 1

RECURSIVE SumRange(_, _, _)
(* sum of the rationals f[lo] .. f[hi-1], by halves *)
SumRange(f, lo, hi) ==
    IF hi <= lo THEN RInt(0)
    ELSE IF hi = lo + 1 THEN f[lo]
    ELSE LET mid == (lo + hi) \div 2
         IN  RAdd(SumRange(f, lo, mid), SumRange(f, mid, hi))

(* sum of the rationals f[0] .. f[n-1] *)
SumTo(f, n) == SumRange(f, 0, n)

(* ---------------------------------------------------- linear algebra *)
Axes == 0 .. 2

Vec3(a, b, c) == [i \in Axes |-> IF i = 0 THEN a ELSE IF i = 1 THEN b ELSE c]
Mat3(r0, r1, r2) == [i \in Axes |-> IF i = 0 THEN r0 ELSE IF i = 1 THEN r1 ELSE r2]

ZeroVec == [i \in Axes |-> RInt(0)]

VAdd(u, v) == [i \in Axes |-> RAdd(u[i], v[i])]
VScale(s, v) == [i \in Axes |-> RMul(s, v[i])]
Dot(u, v) == RAdd(RAdd(RMul(u[0], v[0]), RMul(u[1], v[1])), RMul(u[2], v[2]))

(* cell.det() of an integer cell *)
Det(cell) ==
      cell[0][0] * (cell[1][1] * cell[2][2] - cell[1][2] * cell[2][1])
    - cell[0][1] * (cell[1][0] * cell[2][2] - cell[1][2] * cell[2][0])
    + cell[0][2] * (cell[1][0] * cell[2][1] - cell[1][1] * cell[2][0])

(* torch.linalg.inv(cell): entry [i][j] is the cofactor of [j][i] over det *)
Inverse(cell) ==
    [i \in Axes |-> [j \in Axes |->
        Rat(  cell[(j + 1) % 3][(i + 1) % 3] * cell[(j + 2) % 3][(i + 2) % 3]
            - cell[(j + 1) % 3][(i + 2) % 3] * cell[(j + 2) % 3][(i + 1) % 3],
            Det(cell))]]

Transpose(m) == [i \in Axes |-> [j \in Axes |-> m[j][i]]]

(* torch.matmul(cell, v) for an integer cell and a rational vector *)
MatVec(cell, v) ==
    [i \in Axes |-> Dot([j \in Axes |-> RInt(cell[i][j])], v)]

(* ------------------------------------------------ kvectors.py *)
(* a frequency table that switches to the negative half one index late *)
FftFreqLateWrap(n) ==
    [i \in 0 .. n - 1 |-> IF i <= (n + 1) \div 2 THEN Rat(i, n) ELSE Rat(i - n, n)]

(* the frequencies in increasing order, as after fftshift *)
FftFreqCentred(n) == [i \in 0 .. n - 1 |-> Rat(i - n \div 2, n)]

(* torch.fft.fftfreq(n): [0, 1, ..., (n-1)//2, -(n//2), ..., -1] / n *)
FftFreq(n) ==
    [i \in 0 .. n - 1 |-> IF i < (n + 1) \div 2 THEN Rat(i, n) ELSE Rat(i - n, n)]

(* the half-spectrum table replaced by the full signed table *)
RfftFreqFull(n) ==
    [i \in 0 .. n - 1 |-> IF i < (n + 1) \div 2 THEN Rat(i, n) ELSE Rat(i - n, n)]

(* torch.fft.rfftfreq(n): [0, 1, ..., n//2] / n *)
RfftFreq(n) == [i \in 0 .. n \div 2 |-> Rat(i, n)]

(* reciprocal_cell = 2 * torch.pi * inverse_cell.T, in units of 2*pi *)
ReciprocalCellNoTranspose(cell) == Inverse(cell)

ReciprocalCell(cell) == Transpose(Inverse(cell))

(* (b * n) * freq.unsqueeze(-1): one vector per frequency *)
AxisVectors(b, n, freq) ==
    [i \in DOMAIN freq |-> VScale(freq[i], VScale(RInt(n), b))]

(* _generate_kvectors for inputs that pass the shape and device checks *)
GenerateKvectors(ns, cell, for_ewald) ==
    LET reciprocal_cell == ReciprocalCell(cell)
        kxs == AxisVectors(reciprocal_cell[0], ns[0], FftFreq(ns[0]))
        kys == AxisVectors(reciprocal_cell[1], ns[1], FftFreq(ns[1]))
        kzs == IF for_ewald
               THEN AxisVectors(reciprocal_cell[2], ns[2], FftFreq(ns[2]))
               ELSE AxisVectors(reciprocal_cell[2], ns[2], RfftFreq(ns[2]))
    IN  [ix \in DOMAIN kxs |-> [iy \in DOMAIN kys |-> [iz \in DOMAIN kzs |->
            VAdd(VAdd(kxs[ix], kys[iy]), kzs[iz])]]]

(* tensor.reshape(-1, 3) of an (a, b, c, 3) grid: row-major flattening *)
Reshape(grid) ==
    LET na == Cardinality(DOMAIN grid)
        nb == Cardinality(DOMAIN grid[0])
        nc == Cardinality(DOMAIN grid[0][0])
    IN  [f \in 0 .. na * nb * nc - 1 |->
            grid[f \div (nb * nc)][(f \div nc) % nb][f % nc]]

generate_kvectors_for_mesh(ns, cell) == GenerateKvectors(ns, cell, FALSE)

generate_kvectors_for_ewald(ns, cell) == Reshape(GenerateKvectors(ns, cell, TRUE))

(* ------------------------------------------------------------ inputs *)
(* real-space cells: rows are the basis vectors; all are invertible and   *)
(* every row has an integer length                                        *)
Cells ==
    { Mat3(Vec3(2, 0, 0), Vec3(0, 2, 0), Vec3(0, 0, 2)),
      Mat3(Vec3(1, 0, 0), Vec3(0, 2, 0), Vec3(0, 0, 3)),
      Mat3(Vec3(3, 4, 0), Vec3(0, 1, 0), Vec3(0, 0, -2)) }

NsSet == {Vec3(a, b, c) : a \in 1 .. MaxNs, b \in 1 .. MaxNs, c \in 1 .. MaxNs}

(* ------------------------------------------------ k-vector generator *)
(* a call of one generator: the arguments are fixed when the call is made *)
KvInit ==
    /\ \E ns \in NsSet, cell \in Cells :
        kv = [op |-> "none", ns |-> ns, cell |-> cell, kvectors |-> <<>>]
    /\ calc = Unused
    /\ potential = Unused
    /\ fsc = Unused
    /\ conv = Unused
    /\ mi = Unused
    /\ dist = Unused
    /\ w1d = Unused
    /\ interp = Unused /\ computed = FALSE /\ ret = Unused

CallGenerateKvectorsForMesh ==
    /\ kv.op = "none"
    /\ kv' = [kv EXCEPT !.op = "mesh",
                        !.kvectors = generate_kvectors_for_mesh(kv.ns, kv.cell)]
    /\ UNCHANGED <<interp, computed, ret, w1d, calc, potential, fsc, conv, mi, dist>>

CallGenerateKvectorsForEwald ==
    /\ kv.op = "none"
    /\ kv' = [kv EXCEPT !.op = "ewald",
                        !.kvectors = generate_kvectors_for_ewald(kv.ns, kv.cell)]
    /\ UNCHANGED <<interp, computed, ret, w1d, calc, potential, fsc, conv, mi, dist>>

KvNext == CallGenerateKvectorsForMesh \/ CallGenerateKvectorsForEwald

SpecKvectors == KvInit /\ [][KvNext]_vars

(* ------------------------------------------------ mesh_interpolator.py *)
(* c[1] + c[2]*x + c[3]*x2 + c[4]*x3 + c[5]*x4 with the powers built as    *)
(* in the source: x2 = x * x, x3 = x * x2, x4 = x * x3                     *)
Poly(c, x) ==
    LET x2 == RMul(x, x)
        x3 == RMul(x, x2)
        x4 == RMul(x, x3)
    IN  RAdd(RAdd(RAdd(RAdd(RInt(c[1]), RMul(RInt(c[2]), x)),
                       RMul(RInt(c[3]), x2)),
                  RMul(RInt(c[4]), x3)),
             RMul(RInt(c[5]), x4))

(* the table with the middle weight of order 3 written 1/4 * (3 - 2*x2) *)
WeightTableTypo(order) ==
    IF order = 1 THEN << <<1, <<1, 0, 0, 0, 0>>>> >>
    ELSE IF order = 2 THEN
        << <<2, <<1, -2, 0, 0, 0>>>>,
           <<2, <<1, 2, 0, 0, 0>>>> >>
    ELSE IF order = 3 THEN
        << <<8, <<1, -4, 4, 0, 0>>>>,
           <<4, <<3, 0, -2, 0, 0>>>>,
           <<8, <<1, 4, 4, 0, 0>>>> >>
    ELSE IF order = 4 THEN
        << <<48, <<1, -6, 12, -8, 0>>>>,
           <<48, <<23, -30, -12, 24, 0>>>>,
           <<48, <<23, 30, -12, -24, 0>>>>,
           <<48, <<1, 6, 12, 8, 0>>>> >>
    ELSE
        << <<384, <<1, -8, 24, -32, 16>>>>,
           <<96, <<19, -44, 24, 16, -16>>>>,
           <<192, <<115, 0, -120, 0, 48>>>>,
           <<96, <<19, 44, 24, -16, -16>>>>,
           <<384, <<1, 8, 24, 32, 16>>>> >>

(* the tabulated polynomials of _compute_1d_weights: per stencil point     *)
(* <<s, c>> for the weight 1/s * (c[1] + c[2]*x + ... + c[5]*x4)           *)
WeightTable(order) ==
    IF order = 1 THEN << <<1, <<1, 0, 0, 0, 0>>>> >>
    ELSE IF order = 2 THEN
        << <<2, <<1, -2, 0, 0, 0>>>>,
           <<2, <<1, 2, 0, 0, 0>>>> >>
    ELSE IF order = 3 THEN
        << <<8, <<1, -4, 4, 0, 0>>>>,
           <<4, <<3, 0, -4, 0, 0>>>>,
           <<8, <<1, 4, 4, 0, 0>>>> >>
    ELSE IF order = 4 THEN
        << <<48, <<1, -6, 12, -8, 0>>>>,
           <<48, <<23, -30, -12, 24, 0>>>>,
           <<48, <<23, 30, -12, -24, 0>>>>,
           <<48, <<1, 6, 12, 8, 0>>>> >>
    ELSE
        << <<384, <<1, -8, 24, -32, 16>>>>,
           <<96, <<19, -44, 24, 16, -16>>>>,
           <<192, <<115, 0, -120, 0, 48>>>>,
           <<96, <<19, 44, 24, -16, -16>>>>,
           <<384, <<1, 8, 24, 32, 16>>>> >>

(* _compute_1d_weights for one offset x: the weights of the `order`        *)
(* stencil points (torch.stack along dim 0), for an order in 1..5          *)
Compute1dWeights(order, x) ==
    LET table == WeightTable(order)
    IN  [k \in 0 .. Len(table) - 1 |->
            RMul(Rat(1, table[k + 1][1]), Poly(table[k + 1][2], x))]

(* torch.zeros(1): the float tensor every weight, shift and index         *)
(* attribute holds until compute_interpolation_weights has run            *)
Zeros1 == [i \in 0 .. 0 |-> RInt(0)]

(* MeshInterpolator.__init__ for arguments that pass its checks *)
MeshInterpolatorInit(cell, ns_mesh, interpolation_order) ==
    [cell |-> cell,
     inverse_cell |-> Inverse(cell),
     ns_mesh |-> ns_mesh,
     interpolation_order |-> interpolation_order,
     interpolation_weights |-> Zeros1,
     x_shifts |-> Zeros1, y_shifts |-> Zeros1, z_shifts |-> Zeros1,
     x_indices |-> Zeros1, y_indices |-> Zeros1, z_indices |-> Zeros1]

(* the remainder of C: it takes the sign of the dividend *)
TruncatedRemainder(a, n) == IF a < 0 THEN -((-a) % n) ELSE a % n

(* tensor % tensor is torch.remainder: the result has the sign of the     *)
(* divisor, so it lies in 0 .. n-1 for a mesh size n >= 1                 *)
Remainder(a, n) == a % n

(* an attribute that keeps its value when the new one has its shape *)
KeepSameShape(old, new) ==
    IF Cardinality(DOMAIN new) > 1 /\ DOMAIN old = DOMAIN new
       /\ DOMAIN old[0] = DOMAIN new[0]
    THEN old ELSE new

(* self.<attribute> = value: the old value is dropped *)
Assign(old, new) == new

(* compute_interpolation_weights for positions of shape (N, 3) on the     *)
(* instance device: the attributes after the call                         *)
ComputeInterpolationWeights(self, positions) ==
    LET order == self.interpolation_order
        particles == DOMAIN positions
        positions_rel ==
            [n \in particles |-> [j \in Axes |->
                RMul(RInt(self.ns_mesh[j]),
                     Dot(positions[n], [i \in Axes |-> self.inverse_cell[i][j]]))]]
        positions_rel_idx ==
            [n \in particles |-> [j \in Axes |->
                IF order % 2 = 0 THEN RFloor(positions_rel[n][j])
                ELSE RRound(positions_rel[n][j])]]
        offsets ==
            [n \in particles |-> [j \in Axes |->
                IF order % 2 = 0
                THEN RSub(positions_rel[n][j],
                          RAdd(RInt(positions_rel_idx[n][j]), Rat(1, 2)))
                ELSE RSub(positions_rel[n][j], RInt(positions_rel_idx[n][j]))]]
        weights ==
            [n \in particles |-> [j \in Axes |->
                Compute1dWeights(order, offsets[n][j])]]
        first == 1 - (order + 1) \div 2
        last == order \div 2
        indices_to_interpolate ==
            [k \in 0 .. last - first |-> [n \in particles |-> [j \in Axes |->
                Remainder(positions_rel_idx[n][j] + first + k, self.ns_mesh[j])]]]
        shifts == 0 .. order * order * order - 1
        x_shifts == [s \in shifts |-> s \div (order * order)]
        y_shifts == [s \in shifts |-> (s \div order) % order]
        z_shifts == [s \in shifts |-> s % order]
    IN  [self EXCEPT
            !.interpolation_weights =
                [k \in 0 .. order - 1 |-> [n \in particles |-> [j \in Axes |->
                    weights[n][j][k]]]],
            !.x_shifts = x_shifts,
            !.y_shifts = y_shifts,
            !.z_shifts = z_shifts,
            !.x_indices = [s \in shifts |-> [n \in particles |->
                              indices_to_interpolate[x_shifts[s]][n][0]]],
            !.y_indices = [s \in shifts |-> [n \in particles |->
                              indices_to_interpolate[y_shifts[s]][n][1]]],
            !.z_indices = Assign(@, [s \in shifts |-> [n \in particles |->
                              indices_to_interpolate[z_shifts[s]][n][2]]])]

(* v * w_x * w_y: the weight along z left out *)
WeightedWithoutZ(self, v, s, n) ==
    LET wx == self.interpolation_weights[self.x_shifts[s]][n][0]
        wy == self.interpolation_weights[self.y_shifts[s]][n][1]
    IN  Rat(v.n * wx.n * wy.n, v.d * wx.d * wy.d)

(* v * w_x * w_y * w_z for stencil entry s of particle n, multiplied     *)
(* from left to right                                                     *)
Weighted(self, v, s, n) ==
    LET wx == self.interpolation_weights[self.x_shifts[s]][n][0]
        wy == self.interpolation_weights[self.y_shifts[s]][n][1]
        wz == self.interpolation_weights[self.z_shifts[s]][n][2]
    IN  Rat(v.n * wx.n * wy.n * wz.n, v.d * wx.d * wy.d * wz.d)

(* index_put_ without accumulate: a later value replaces the cell *)
Overwrite(old, new) == new

(* index_put_(..., accumulate=True): the value is added to the cell *)
Accumulate(old, new) == RAdd(old, new)

RECURSIVE IndexPut(_, _, _, _, _, _)
(* mesh.index_put_((x_indices, y_indices, z_indices), values) over the    *)
(* (order^3, N) entries e = s * N + n with lo <= e < hi, in that order;   *)
(* a mesh without cells takes no entry                                    *)
IndexPut(mesh, self, values, num, lo, hi) ==
    IF DOMAIN mesh = {} \/ hi <= lo THEN mesh
    ELSE IF hi = lo + 1
    THEN LET s == lo \div num
             n == lo % num
             ix == self.x_indices[s][n]
             iy == self.y_indices[s][n]
             iz == self.z_indices[s][n]
         IN  [mesh EXCEPT ![ix][iy][iz] = Accumulate(@, values[s][n])]
    ELSE LET mid == (lo + hi) \div 2
         IN  IndexPut(IndexPut(mesh, self, values, num, lo, mid),
                      self, values, num, mid, hi)

(* points_to_mesh for particle_weights of shape (N, n_channels), once     *)
(* compute_interpolation_weights has run for N particles                  *)
PointsToMesh(self, particle_weights) ==
    LET num == Cardinality(DOMAIN particle_weights)
        channels == DOMAIN particle_weights[0]
        zeros == [x \in 0 .. self.ns_mesh[0] - 1 |->
                    [y \in 0 .. self.ns_mesh[1] - 1 |->
                        [z \in 0 .. self.ns_mesh[2] - 1 |-> RInt(0)]]]
    IN  [a \in channels |->
            IndexPut(zeros, self,
                     [s \in DOMAIN self.x_shifts |-> [n \in 0 .. num - 1 |->
                        Weighted(self, RInt(particle_weights[n][a]), s, n)]],
                     num, 0, Cardinality(DOMAIN self.x_shifts) * num)]

(* the gather with the z index taken from the mirrored stencil entry *)
GatherCellMirrored(self, mesh_vals, a, s, n) ==
    mesh_vals[a][self.x_indices[s][n]]
                [self.y_indices[s][n]]
                [self.z_indices[Cardinality(DOMAIN self.z_shifts) - 1 - s][n]]

(* mesh_vals[:, x_indices, y_indices, z_indices] at channel a, entry (s, n) *)
GatherCell(self, mesh_vals, a, s, n) ==
    mesh_vals[a][self.x_indices[s][n]][self.y_indices[s][n]][self.z_indices[s][n]]

(* mesh_to_points for mesh_vals of shape (n_channels, nx, ny, nz), once   *)
(* compute_interpolation_weights has run: (...).sum(dim=1).T              *)
MeshToPoints(self, mesh_vals) ==
    LET particles == DOMAIN self.x_indices[0]
        stencil == Cardinality(DOMAIN self.x_shifts)
    IN  [n \in particles |-> [a \in DOMAIN mesh_vals |->
            SumTo([s \in DOMAIN self.x_shifts |->
                      Weighted(self, RInt(GatherCell(self, mesh_vals, a, s, n)), s, n)],
                  stencil)]]

(* ------------------------------------------------------------ inputs *)
(* interpolator cells: rows are the basis vectors *)
MeshCells ==
    { Mat3(Vec3(1, 0, 0), Vec3(0, 1, 0), Vec3(0, 0, 1)),
      Mat3(Vec3(1, 1, 0), Vec3(0, 1, 0), Vec3(0, 0, -1)) }

NsMeshSet == {Vec3(a, a + 1, a + 2) : a \in 1 .. MaxMesh}

(* Cartesian positions with half-integer coordinates, inside and outside  *)
(* the cell, on both sides of the origin                                  *)
PointAt(c) == Vec3(Rat(c, 2), Rat(c + 1, 2), Rat(-c, 2))

PositionSet ==
    {[n \in 0 .. 0 |-> PointAt(c)] : c \in -MaxCoord .. MaxCoord}
    \cup {[n \in 0 .. 1 |-> IF n = 0 THEN PointAt(-MaxCoord) ELSE PointAt(e - MaxCoord)] :
            e \in 0 .. 1}

(* particle weights of shape (num, 1) and (num, 2) *)
ParticleWeightSet(num) ==
    { [n \in 0 .. num - 1 |-> [a \in 0 .. 0 |-> IF n = 0 THEN 2 ELSE -1]],
      [n \in 0 .. num - 1 |-> [a \in 0 .. 1 |-> IF a = 0 THEN 1 ELSE -(n + 1)]] }

(* mesh values of shape (1, nx, ny, nz) and (2, nx, ny, nz) *)
MeshValueSet(ns) ==
    { [a \in 0 .. 0 |-> [x \in 0 .. ns[0] - 1 |-> [y \in 0 .. ns[1] - 1 |->
            [z \in 0 .. ns[2] - 1 |-> 1 + x - 2 * y + 3 * z]]]],
      [a \in 0 .. 1 |-> [x \in 0 .. ns[0] - 1 |-> [y \in 0 .. ns[1] - 1 |->
            [z \in 0 .. ns[2] - 1 |->
                IF a = 0 THEN x - z
                ELSE IF x = 0 /\ y = ns[1] - 1 /\ z = 0 THEN 2 ELSE 0]]]] }

(* the offsets n/d in [-1/2, 1/2] with d up to MaxOffsetDen *)
Offsets ==
    {r \in {Rat(n, d) : n \in -MaxOffsetDen .. MaxOffsetDen, d \in 1 .. MaxOffsetDen} :
        2 * Abs(r.n) <= r.d}

Orders == 1 .. 5

(* ------------------------------------------------ ewaldpotential.py *)
(* the Python value None; a number is a rational [n, d] *)
None == [none |-> TRUE]

(* torch.linalg.norm of a cell row whose length is an integer *)
Norm(v) ==
    LET sq == v[0] * v[0] + v[1] * v[1] + v[2] * v[2]
    IN  CHOOSE r \in 0 .. sq : r * r = sq

(* the largest of three *)
Max3(a, b, c) ==
    LET ab == IF a >= b THEN a ELSE b IN IF ab >= c THEN ab ELSE c

Min3(a, b, c) ==
    LET ab == IF a <= b THEN a ELSE b IN IF ab <= c THEN ab ELSE c

(* lib.generate_kvectors_squeezed: the explicit-sum (Ewald) enumeration,  *)
(* flattened to a list                                                    *)
generate_kvectors_squeezed(ns, cell) == generate_kvectors_for_ewald(ns, cell)

(* _ShortRange.__init__: keeps the exponent and subtract_interior *)
ShortRangeInit(exponent, subtract_interior) ==
    [exponent |-> exponent, subtract_interior |-> subtract_interior]

(* exponent < 0.0 or exponent > 3.0 *)
ExponentRejected(exponent) ==
    RLt(exponent, RInt(0)) \/ RLt(RInt(3), exponent)

(* the smearing test that lets 0 through *)
SmearingRejectedBelowZero(atomic_smearing) ==
    atomic_smearing # None /\ RLt(atomic_smearing, RInt(0))

(* atomic_smearing is not None and atomic_smearing <= 0 *)
SmearingRejected(atomic_smearing) ==
    atomic_smearing # None /\ RLe(atomic_smearing, RInt(0))

(* subtract_self stored as passed *)
SubtractSelfAsPassed(subtract_interior, subtract_self) == subtract_self

(* if self.subtract_interior: subtract_self = True *)
StoredSubtractSelf(subtract_interior, subtract_self) ==
    IF subtract_interior THEN TRUE ELSE subtract_self

(* _EwaldPotentialImpl.__init__: the attributes of the new object, or the *)
(* error it raises                                                        *)
EwaldInit(a) ==
    IF ExponentRejected(a.exponent)
    THEN [pc |-> "raised", error |-> "ValueError", args |-> a]
    ELSE IF SmearingRejected(a.atomic_smearing)
    THEN [pc |-> "raised", error |-> "ValueError", args |-> a]
    ELSE LET base == ShortRangeInit(a.exponent, a.subtract_interior)
         IN  [pc |-> "ready", args |-> a,
              exponent |-> base.exponent,
              subtract_interior |-> base.subtract_interior,
              atomic_smearing |-> a.atomic_smearing,
              lr_wavelength |-> a.lr_wavelength,
              subtract_self |-> StoredSubtractSelf(base.subtract_interior,
                                                   a.subtract_self)]

(* _ShortRange._compute_sr: the real-space sum, kept as its arguments *)
ComputeSr(self, sys, cell, smearing) ==
    [exponent |-> self.exponent, subtract_interior |-> self.subtract_interior,
     smearing |-> smearing]

(* _compute_lr. energy[i][a] is kept in two parts: k_sum names the        *)
(* reciprocal sum over kvectors divided by the volume, and self_contrib   *)
(* is the multiple of sqrt(2/pi)/smearing added to it.                    *)
ComputeLr(self, sys, cell, smearing, lr_wavelength, subtract_self) ==
    LET k_cutoff == RDiv(RInt(1), lr_wavelength)
        ns == [i \in Axes |-> RCeil(RMul(k_cutoff, RInt(Norm(cell[i]))))]
        kvectors == generate_kvectors_squeezed(ns, cell)
    IN  [ns |-> ns,
         kvectors |-> kvectors,
         volume |-> Abs(Det(cell)),
         energy |->
            [i \in DOMAIN sys.charges |-> [a \in DOMAIN sys.charges[i] |->
                [k_sum |-> <<i, a>>,
                 self_contrib |-> IF subtract_self
                                  THEN RNeg(RInt(sys.charges[i][a]))
                                  ELSE RInt(0)]]]]

(* _compute_single_system: _compute_lr is called without subtract_self,   *)
(* so its default value True is what it receives                          *)
ComputeSingleSystem(self, sys, cell) ==
    LET smearing ==
            IF self.atomic_smearing = None
            THEN LET min_dimension ==
                        Min3(Norm(cell[0]), Norm(cell[1]), Norm(cell[2]))
                     max_cutoff ==
                        RSub(Rat(min_dimension, 2), Rat(1, 1000000))
                 IN  RDiv(max_cutoff, RInt(5))
            ELSE self.atomic_smearing
        lr_wavelength ==
            IF self.lr_wavelength = None
            THEN RMul(Rat(1, 2), smearing)
            ELSE self.lr_wavelength
    IN  [pc |-> "done", sys |-> sys, cell |-> cell,
         smearing |-> smearing, lr_wavelength |-> lr_wavelength,
         potential_sr |-> ComputeSr(self, sys, cell, smearing),
         potential_lr |-> ComputeLr(self, sys, cell, smearing, lr_wavelength, TRUE)]

(* ------------------------------------------------------------ inputs *)
ExponentArgs == {RInt(-1), RInt(0), RInt(1), RInt(3), Rat(7, 2)}
SmearingArgs == {None, RInt(0), Rat(1, 2), RInt(1)}
WavelengthArgs == {None, RInt(1), RInt(2)}

EwaldArgs ==
    [exponent : ExponentArgs, atomic_smearing : SmearingArgs,
     lr_wavelength : WavelengthArgs,
     subtract_self : BOOLEAN, subtract_interior : BOOLEAN]

EwaldCells ==
    { Mat3(Vec3(2, 0, 0), Vec3(0, 2, 0), Vec3(0, 0, 2)),
      Mat3(Vec3(3, 4, 0), Vec3(0, 5, 0), Vec3(0, 0, -5)),
      Mat3(Vec3(3, 0, 0), Vec3(0, 2, 0), Vec3(0, 0, 3)) }

(* two atoms, two charge channels *)
Systems ==
    { [positions |-> [i \in 0 .. 1 |-> IF i = 0 THEN Vec3(0, 0, 0) ELSE Vec3(1, 1, 1)],
       charges |-> [i \in 0 .. 1 |-> [a \in 0 .. 1 |->
                        IF i = 0 THEN (IF a = 0 THEN 1 ELSE 2) ELSE -1]]] }

(* ------------------------------------------------ mesh interpolator *)
InterpInit ==
    /\ \E cell \in MeshCells, ns_mesh \in NsMeshSet, order \in Orders :
            interp = MeshInterpolatorInit(cell, ns_mesh, order)
    /\ computed = FALSE
    /\ ret = [op |-> "__init__"]
    /\ w1d = Unused
    /\ kv = Unused
    /\ calc = Unused
    /\ potential = Unused
    /\ fsc = Unused
    /\ conv = Unused
    /\ mi = Unused
    /\ dist = Unused

(* Until compute_interpolation_weights has run (computed = FALSE) the    *)
(* index attributes hold the float tensors of __init__, which index_put_ *)
(* and tensor indexing reject with an IndexError.                         *)
(* the number of particles of the stored weights                          *)
NumStored == IF ~computed THEN 1 ELSE Cardinality(DOMAIN interp.x_indices[0])

CallComputeInterpolationWeights ==
    /\ \E positions \in PositionSet :
        /\ interp' = ComputeInterpolationWeights(interp, positions)
        /\ ret' = [op |-> "compute_interpolation_weights", positions |-> positions]
    /\ computed' = TRUE
    /\ UNCHANGED <<w1d, kv, calc, potential, fsc, conv, mi, dist>>

CallPointsToMesh ==
    /\ \E particle_weights \in ParticleWeightSet(NumStored) :
            ret' = IF ~computed
                   THEN [op |-> "points_to_mesh", raised |-> "IndexError"]
                   ELSE [op |-> "points_to_mesh",
                         particle_weights |-> particle_weights,
                         rho_mesh |-> PointsToMesh(interp, particle_weights)]
    /\ UNCHANGED <<interp, computed, w1d, kv, calc, potential, fsc, conv, mi, dist>>

CallMeshToPoints ==
    /\ \E mesh_vals \in MeshValueSet(interp.ns_mesh) :
            ret' = IF ~computed
                   THEN [op |-> "mesh_to_points", raised |-> "IndexError"]
                   ELSE [op |-> "mesh_to_points",
                         mesh_vals |-> mesh_vals,
                         interpolated_values |-> MeshToPoints(interp, mesh_vals)]
    /\ UNCHANGED <<interp, computed, w1d, kv, calc, potential, fsc, conv, mi, dist>>

InterpNext ==
    \/ CallComputeInterpolationWeights
    \/ CallPointsToMesh
    \/ CallMeshToPoints

SpecInterp == InterpInit /\ [][InterpNext]_vars

(* --------------------------------------- mesh interpolator properties *)
(* the (stencil entry, particle) pairs of the stored weights *)
Entries == (DOMAIN interp.x_shifts) \X (DOMAIN interp.x_indices[0])

(* the entries in a fixed order: entry i of EntryCount *)
EntryCount == Cardinality(Entries)
Entry(i) == <<i \div NumStored, i % NumStored>>

(* the mesh cell entry e is stored for *)
CellOf(e) ==
    <<interp.x_indices[e[1]][e[2]],
      interp.y_indices[e[1]][e[2]],
      interp.z_indices[e[1]][e[2]]>>

MeshCellSet ==
    (0 .. interp.ns_mesh[0] - 1) \X (0 .. interp.ns_mesh[1] - 1)
        \X (0 .. interp.ns_mesh[2] - 1)

(* the product of the three 1-D weights of entry e *)
WeightProduct(e) ==
    RMul(RMul(interp.interpolation_weights[interp.x_shifts[e[1]]][e[2]][0],
              interp.interpolation_weights[interp.y_shifts[e[1]]][e[2]][1]),
         interp.interpolation_weights[interp.z_shifts[e[1]]][e[2]][2])

Scattered == ret.op = "points_to_mesh" /\ "rho_mesh" \in DOMAIN ret
Gathered == ret.op = "mesh_to_points" /\ "interpolated_values" \in DOMAIN ret

(* C2: once compute_interpolation_weights has run, every stored grid     *)
(* index lies in 0 .. n-1 of its axis, for every order and every         *)
(* position, negative coordinates and negative stencil offsets included  *)
C2_IndicesInRange ==
    computed =>
        \A e \in Entries :
            /\ CellOf(e)[1] \in 0 .. interp.ns_mesh[0] - 1
            /\ CellOf(e)[2] \in 0 .. interp.ns_mesh[1] - 1
            /\ CellOf(e)[3] \in 0 .. interp.ns_mesh[2] - 1

(* a particle with a negative z coordinate and a stencil with negative   *)
(* offsets whose first z index wrapped around to above its last one      *)
C2_Witness ==
    /\ ret.op = "compute_interpolation_weights"
    /\ interp.interpolation_order >= 3
    /\ \E n \in DOMAIN ret.positions :
        /\ ret.positions[n][2].n < 0
        /\ interp.z_indices[0][n] >
               interp.z_indices[Cardinality(DOMAIN interp.z_shifts) - 1][n]

(* C3: points_to_mesh accumulates: every cell of every channel of the    *)
(* returned mesh is the sum, over the entries stored for that cell, of   *)
(* the particle weight times the three 1-D weights; a cell no entry is   *)
(* stored for is 0                                                       *)
C3_Accumulates ==
    Scattered =>
        \A a \in DOMAIN ret.rho_mesh :
            LET contribution ==
                    [i \in 0 .. EntryCount - 1 |->
                        RMul(RInt(ret.particle_weights[Entry(i)[2]][a]),
                             WeightProduct(Entry(i)))]
            IN  \A c \in MeshCellSet :
                    ret.rho_mesh[a][c[1]][c[2]][c[3]] =
                        SumTo([i \in 0 .. EntryCount - 1 |->
                                  IF CellOf(Entry(i)) = c THEN contribution[i]
                                  ELSE RInt(0)],
                              EntryCount)

(* two particles share a cell, two stencil entries of one particle wrap  *)
(* to one cell, one cell is left untouched and one received a value      *)
C3_Witness ==
    /\ Scattered
    /\ \E e1, e2 \in Entries : e1[2] # e2[2] /\ CellOf(e1) = CellOf(e2)
    /\ \E e1, e2 \in Entries :
            e1[2] = e2[2] /\ e1[1] # e2[1] /\ CellOf(e1) = CellOf(e2)
    /\ \E c \in MeshCellSet :
        /\ \A e \in Entries : CellOf(e) # c
        /\ \A a \in DOMAIN ret.rho_mesh : ret.rho_mesh[a][c[1]][c[2]][c[3]] = RInt(0)
    /\ \E c \in MeshCellSet, a \in DOMAIN ret.rho_mesh :
            ret.rho_mesh[a][c[1]][c[2]][c[3]] # RInt(0)

(* sum over channels and cells of rho * M *)
MeshInner(rho, M) ==
    SumTo([a \in DOMAIN M |->
              SumTo([x \in DOMAIN M[a] |->
                  SumTo([y \in DOMAIN M[a][x] |->
                      SumTo([z \in DOMAIN M[a][x][y] |->
                                RMul(rho[a][x][y][z], RInt(M[a][x][y][z]))],
                            interp.ns_mesh[2])],
                        interp.ns_mesh[1])],
                    interp.ns_mesh[0])],
          Cardinality(DOMAIN M))

(* sum over particles and channels of q * v *)
PointInner(q, v) ==
    SumTo([n \in DOMAIN q |->
              SumTo([a \in DOMAIN q[n] |-> RMul(RInt(q[n][a]), v[n][a])],
                    Cardinality(DOMAIN q[n]))],
          Cardinality(DOMAIN q))

(* C5: mesh_to_points is the adjoint of points_to_mesh for the stored    *)
(* weights: <points_to_mesh(q), M> over channels and cells equals        *)
(* <q, mesh_to_points(M)> over particles and channels                    *)
C5_Adjoint ==
    Gathered =>
        \A q \in ParticleWeightSet(NumStored) :
            DOMAIN q[0] = DOMAIN ret.mesh_vals =>
                MeshInner(PointsToMesh(interp, q), ret.mesh_vals) =
                    PointInner(q, ret.interpolated_values)

(* a gather for two particles and two channels with a stencil of more    *)
(* than one point per axis and interpolated values that are not all 0    *)
C5_Witness ==
    /\ Gathered
    /\ NumStored = 2
    /\ Cardinality(DOMAIN ret.mesh_vals) = 2
    /\ interp.interpolation_order >= 2
    /\ \E q \in ParticleWeightSet(NumStored) :
        /\ DOMAIN q[0] = DOMAIN ret.mesh_vals
        /\ PointInner(q, ret.interpolated_values) # RInt(0)

(* the position of particle n of the last compute call in units of the  *)
(* mesh spacing: coordinate j along cell vector j, times ns_mesh[j]      *)
RelativePosition(n) ==
    [j \in Axes |->
        RMul(RInt(interp.ns_mesh[j]),
             Dot(ret.positions[n], [i \in Axes |-> interp.inverse_cell[i][j]]))]

(* r is the relative position of the Cartesian point x:                  *)
(* x = sum_j (r[j] / ns_mesh[j]) * cell[j]                               *)
IsRelativePosition(r, x) ==
    \A c \in Axes :
        x[c] = Dot([j \in Axes |-> RDiv(r[j], RInt(interp.ns_mesh[j]))],
                   [j \in Axes |-> RInt(interp.cell[j][c])])

(* the integer the stencil of a particle at relative coordinate r is     *)
(* placed by: the one at or below r for an even order, the nearest one   *)
(* for an odd order, the even one of the two when r is half-way          *)
StencilBase(order, r) ==
    LET reach == Abs(r.n) \div r.d + 1
    IN  CHOOSE b \in -reach .. reach :
            IF order % 2 = 0
            THEN RLe(RInt(b), r) /\ RLt(r, RInt(b + 1))
            ELSE LET twice == RMul(RInt(2), RSub(r, RInt(b)))
                 IN  /\ RLe(RInt(-1), twice) /\ RLe(twice, RInt(1))
                     /\ (Abs(twice.n) = twice.d) => b % 2 = 0

(* what the weight polynomials are evaluated at *)
StencilOffset(order, r) ==
    IF order % 2 = 0
    THEN RSub(r, RAdd(RInt(StencilBase(order, r)), Rat(1, 2)))
    ELSE RSub(r, RInt(StencilBase(order, r)))

AxisIndices(j) ==
    IF j = 0 THEN interp.x_indices
    ELSE IF j = 1 THEN interp.y_indices ELSE interp.z_indices

AxisShifts(j) ==
    IF j = 0 THEN interp.x_shifts
    ELSE IF j = 1 THEN interp.y_shifts ELSE interp.z_shifts

(* C21: after compute_interpolation_weights with order p every particle  *)
(* has, per axis, the p indices base + i, i from 1 - (p+1)//2 to p//2,   *)
(* wrapped into the mesh, base being the floor (p even) or the rounded   *)
(* value (p odd) of its relative position; its p weights per axis are    *)
(* the polynomials at an offset in [-1/2, 1/2]; and the p^3 stencil      *)
(* entries are the p^3 triples of per-axis shifts                        *)
C21_Stencil ==
    ret.op = "compute_interpolation_weights" =>
        LET p == interp.interpolation_order
            first == 1 - (p + 1) \div 2
            stencil == 0 .. p * p * p - 1
        IN  /\ first + p - 1 = p \div 2
            /\ DOMAIN interp.interpolation_weights = 0 .. p - 1
            /\ \A j \in Axes :
                DOMAIN AxisShifts(j) = stencil /\ DOMAIN AxisIndices(j) = stencil
            /\ {<<interp.x_shifts[s], interp.y_shifts[s], interp.z_shifts[s]>> :
                    s \in stencil} = (0 .. p - 1) \X (0 .. p - 1) \X (0 .. p - 1)
            /\ \A n \in DOMAIN ret.positions :
                /\ IsRelativePosition(RelativePosition(n), ret.positions[n])
                /\ \A j \in Axes :
                    LET r == RelativePosition(n)[j]
                        offset == StencilOffset(p, r)
                    IN  /\ RLe(Rat(-1, 2), offset) /\ RLe(offset, Rat(1, 2))
                        /\ \A k \in 0 .. p - 1 :
                            interp.interpolation_weights[k][n][j] =
                                Compute1dWeights(p, offset)[k]
                        /\ \A s \in stencil :
                            AxisIndices(j)[s][n] =
                                (StencilBase(p, r) + first + AxisShifts(j)[s])
                                    % interp.ns_mesh[j]

(* order 3 with a particle half-way between two mesh points on two      *)
(* axes, the base being the upper point on one and the lower on the other *)
C21_Witness ==
    /\ ret.op = "compute_interpolation_weights"
    /\ interp.interpolation_order = 3
    /\ \E n \in DOMAIN ret.positions, j1, j2 \in Axes :
            LET r1 == RelativePosition(n)[j1]
                r2 == RelativePosition(n)[j2]
            IN  /\ r1.d = 2 /\ StencilBase(3, r1) = RFloor(r1) + 1
                /\ r2.d = 2 /\ StencilBase(3, r2) = RFloor(r2)

(* the sum of one channel of a mesh over all its cells *)
MeshTotal(rho) ==
    SumTo([x \in DOMAIN rho |->
              SumTo([y \in DOMAIN rho[x] |->
                        SumTo(rho[x][y], interp.ns_mesh[2])],
                    interp.ns_mesh[1])],
          interp.ns_mesh[0])

(* the sum of channel a of the particle weights over all particles *)
ParticleTotal(q, a) ==
    SumTo([n \in DOMAIN q |-> RInt(q[n][a])], Cardinality(DOMAIN q))

(* C22: points_to_mesh conserves the total weight: for every channel     *)
(* the returned mesh summed over its cells equals the particle weights   *)
(* of that channel summed over the particles                             *)
C22_ConservesWeight ==
    Scattered =>
        /\ DOMAIN ret.rho_mesh = DOMAIN ret.particle_weights[0]
        /\ \A a \in DOMAIN ret.rho_mesh :
            MeshTotal(ret.rho_mesh[a]) = ParticleTotal(ret.particle_weights, a)

(* two particles and two channels with totals that are not 0, scattered  *)
(* with order 5 onto a mesh with fewer than 5 points along every axis,   *)
(* so that a cell receives several stencil entries of one particle       *)
C22_Witness ==
    /\ Scattered
    /\ interp.interpolation_order = 5
    /\ \A j \in Axes : interp.ns_mesh[j] < 5
    /\ NumStored = 2
    /\ Cardinality(DOMAIN ret.rho_mesh) = 2
    /\ \A a \in DOMAIN ret.rho_mesh : ParticleTotal(ret.particle_weights, a) # RInt(0)
    /\ \E e1, e2 \in Entries :
            e1[2] = e2[2] /\ e1[1] # e2[1] /\ CellOf(e1) = CellOf(e2)

(* ------------------------------- mesh interpolator: argument checks *)
(* a tensor argument: its device, its shape and, when the shape is the   *)
(* expected one, its values                                              *)
Tensor(device, shape, data) == [device |-> device, shape |-> shape, data |-> data]

Devices == {"cpu", "cuda"}

Raised(self, error) == [self |-> self, raised |-> error]

(* the order test that lets 0 through *)
OrderRejectedAboveFive(interpolation_order) ==
    interpolation_order \notin {0, 1, 2, 3, 4, 5}

(* interpolation_order not in [1, 2, 3, 4, 5] *)
OrderRejected(interpolation_order) ==
    interpolation_order \notin {1, 2, 3, 4, 5}

(* MeshInterpolator(cell, ns_mesh, interpolation_order): the checks of   *)
(* __init__ in their order, then the attributes                          *)
MeshInterpolatorNew(cell, ns_mesh, interpolation_order) ==
    IF cell.shape # <<3, 3>> THEN Raised(Unused, "ValueError")
    ELSE IF ns_mesh.shape # <<3>> THEN Raised(Unused, "ValueError")
    ELSE IF OrderRejected(interpolation_order) THEN Raised(Unused, "ValueError")
    ELSE IF cell.device # ns_mesh.device THEN Raised(Unused, "ValueError")
    ELSE [self |-> MeshInterpolatorInit(cell.data, ns_mesh.data,
                                        interpolation_order),
          device |-> cell.device]

(* compute_interpolation_weights with the device test made after the     *)
(* attributes were written                                               *)
ComputeInterpolationWeightsLateCheck(device, self, positions) ==
    IF Len(positions.shape) # 2 \/ positions.shape[2] # 3
    THEN Raised(self, "ValueError")
    ELSE IF positions.device # device
    THEN Raised(ComputeInterpolationWeights(self, positions.data), "ValueError")
    ELSE [self |-> ComputeInterpolationWeights(self, positions.data)]

(* compute_interpolation_weights on an instance on `device`: both checks *)
(* come before the first attribute is written                            *)
ComputeInterpolationWeightsChecked(device, self, positions) ==
    IF positions.device # device THEN Raised(self, "ValueError")
    ELSE IF Len(positions.shape) # 2 \/ positions.shape[2] # 3
    THEN Raised(self, "ValueError")
    ELSE [self |-> ComputeInterpolationWeights(self, positions.data)]

(* points_to_mesh: the device and dimension checks, then index_put_,     *)
(* which rejects the float indices of __init__ (stored = FALSE)          *)
PointsToMeshChecked(device, self, stored, particle_weights) ==
    IF particle_weights.device # device THEN Raised(self, "ValueError")
    ELSE IF Len(particle_weights.shape) # 2 THEN Raised(self, "ValueError")
    ELSE IF ~stored THEN Raised(self, "IndexError")
    ELSE [self |-> self, rho_mesh |-> PointsToMesh(self, particle_weights.data)]

(* mesh_to_points: the dimension check, then the gather *)
MeshToPointsChecked(self, stored, mesh_vals) ==
    IF Len(mesh_vals.shape) # 4 THEN Raised(self, "ValueError")
    ELSE IF ~stored THEN Raised(self, "IndexError")
    ELSE [self |-> self,
          interpolated_values |-> MeshToPoints(self, mesh_vals.data)]

(* ------------------------------------------------------------ inputs *)
NoData == <<>>

CellTensors ==
    {Tensor(dev, <<3, 3>>, Mat3(Vec3(1, 1, 0), Vec3(0, 1, 0), Vec3(0, 0, -1))) :
        dev \in Devices}
    \cup {Tensor(dev, <<3>>, NoData) : dev \in Devices}

NsMeshTensors ==
    {Tensor(dev, <<3>>, Vec3(1, 2, 3)) : dev \in Devices}
    \cup {Tensor(dev, <<3, 1>>, NoData) : dev \in Devices}

OrderArgs == {0, 6} \cup Orders

(* one particle at two places, and two particles *)
CheckedPositions ==
    { [n \in 0 .. 0 |-> PointAt(1)],
      [n \in 0 .. 0 |-> PointAt(0)],
      [n \in 0 .. 1 |-> PointAt(n - 1)] }

PositionTensors ==
    {Tensor(dev, <<Cardinality(DOMAIN p), 3>>, p) :
        dev \in Devices, p \in CheckedPositions}
    \cup {Tensor("cpu", <<3>>, NoData), Tensor("cuda", <<2, 2>>, NoData)}

(* particle weights for the stored number of particles *)
ParticleWeightTensors(num) ==
    {Tensor(dev, <<num, Cardinality(DOMAIN q[0])>>, q) :
        dev \in Devices, q \in {w \in ParticleWeightSet(num) : 1 \in DOMAIN w[0]}}
    \cup {Tensor(dev, <<num>>, NoData) : dev \in Devices}

MeshValueTensors(ns) ==
    {Tensor("cpu", <<Cardinality(DOMAIN M), ns[0], ns[1], ns[2]>>, M) :
        M \in {m \in MeshValueSet(ns) : 1 \in DOMAIN m}}
    \cup {Tensor("cpu", <<ns[0], ns[1], ns[2]>>, NoData)}

(* ------------------------------------------------------- the machine *)
CheckedInit ==
    /\ \E cell \in CellTensors, ns_mesh \in NsMeshTensors, order \in OrderArgs :
            mi = [pc |-> "new", cell |-> cell, ns_mesh |-> ns_mesh,
                  interpolation_order |-> order]
    /\ interp = Unused
    /\ computed = FALSE
    /\ ret = [op |-> "none", stored_for |-> None]
    /\ dist = Unused
    /\ w1d = Unused
    /\ kv = Unused
    /\ calc = Unused
    /\ potential = Unused
    /\ fsc = Unused
    /\ conv = Unused

(* MeshInterpolator(cell, ns_mesh, interpolation_order) *)
Construct ==
    /\ mi.pc = "new"
    /\ LET out == MeshInterpolatorNew(mi.cell, mi.ns_mesh, mi.interpolation_order)
       IN  IF "raised" \in DOMAIN out
           THEN /\ mi' = [mi EXCEPT !.pc = "raised"] @@ [error |-> out.raised]
                /\ interp' = out.self
           ELSE /\ mi' = [mi EXCEPT !.pc = "ready"] @@ [device |-> out.device]
                /\ interp' = out.self
    /\ UNCHANGED <<computed, ret, w1d, kv, calc, potential, fsc, conv, dist>>

(* self.compute_interpolation_weights(positions); stored_for remembers   *)
(* the positions of the last call that returned                          *)
CheckedCompute ==
    /\ mi.pc = "ready"
    /\ \E positions \in PositionTensors :
        LET out == ComputeInterpolationWeightsChecked(mi.device, interp, positions)
        IN  /\ interp' = out.self
            /\ IF "raised" \in DOMAIN out
               THEN /\ ret' = [op |-> "compute_interpolation_weights",
                               raised |-> out.raised,
                               stored_for |-> ret.stored_for]
                    /\ computed' = computed
               ELSE /\ ret' = [op |-> "compute_interpolation_weights",
                               stored_for |-> positions.data]
                    /\ computed' = TRUE
    /\ UNCHANGED <<w1d, kv, calc, potential, fsc, conv, mi, dist>>

(* self.points_to_mesh(particle_weights) *)
CheckedPointsToMesh ==
    /\ mi.pc = "ready"
    /\ \E particle_weights \in ParticleWeightTensors(NumStored) :
        LET out == PointsToMeshChecked(mi.device, interp, computed, particle_weights)
        IN  /\ interp' = out.self
            /\ ret' = IF "raised" \in DOMAIN out
                      THEN [op |-> "points_to_mesh", raised |-> out.raised,
                            stored_for |-> ret.stored_for]
                      ELSE [op |-> "points_to_mesh",
                            particle_weights |-> particle_weights.data,
                            rho_mesh |-> out.rho_mesh,
                            stored_for |-> ret.stored_for]
    /\ UNCHANGED <<computed, w1d, kv, calc, potential, fsc, conv, mi, dist>>

(* self.mesh_to_points(mesh_vals) *)
CheckedMeshToPoints ==
    /\ mi.pc = "ready"
    /\ \E mesh_vals \in MeshValueTensors(interp.ns_mesh) :
        LET out == MeshToPointsChecked(interp, computed, mesh_vals)
        IN  /\ interp' = out.self
            /\ ret' = IF "raised" \in DOMAIN out
                      THEN [op |-> "mesh_to_points", raised |-> out.raised,
                            stored_for |-> ret.stored_for]
                      ELSE [op |-> "mesh_to_points",
                            mesh_vals |-> mesh_vals.data,
                            interpolated_values |-> out.interpolated_values,
                            stored_for |-> ret.stored_for]
    /\ UNCHANGED <<computed, w1d, kv, calc, potential, fsc, conv, mi, dist>>

CheckedNext ==
    \/ Construct
    \/ CheckedCompute
    \/ CheckedPointsToMesh
    \/ CheckedMeshToPoints

SpecInterpChecked == CheckedInit /\ [][CheckedNext]_vars

(* C14: the constructor raises a ValueError for an order outside 1..5,   *)
(* a cell not of shape (3,3), an ns_mesh not of shape (3,) and for cell  *)
(* and ns_mesh on different devices; a constructed instance has an order *)
(* in 1..5                                                               *)
C14_ConstructorRejects ==
    /\ (/\ mi.pc # "new"
        /\ \/ mi.interpolation_order \notin 1 .. 5
           \/ mi.cell.shape # <<3, 3>>
           \/ mi.ns_mesh.shape # <<3>>
           \/ mi.cell.device # mi.ns_mesh.device)
        => (mi.pc = "raised" /\ mi.error = "ValueError" /\ interp = Unused)
    /\ mi.pc = "ready" => interp.interpolation_order \in 1 .. 5

(* order 6 with a cell and an ns_mesh that pass their checks *)
C14_Witness ==
    /\ mi.pc = "raised"
    /\ mi.interpolation_order = 6
    /\ mi.cell.shape = <<3, 3>>
    /\ mi.ns_mesh.shape = <<3>>
    /\ mi.cell.device = mi.ns_mesh.device

(* the attributes __init__ wrote, and those a compute call for the      *)
(* positions in stored_for writes over them                              *)
FreshInterpolator ==
    MeshInterpolatorInit(mi.cell.data, mi.ns_mesh.data, mi.interpolation_order)

LatestWeights ==
    IF computed THEN ComputeInterpolationWeights(FreshInterpolator, ret.stored_for)
    ELSE FreshInterpolator

OneElementEach(self) ==
    \A f \in {"interpolation_weights", "x_shifts", "y_shifts", "z_shifts",
               "x_indices", "y_indices", "z_indices"} :
        Cardinality(DOMAIN self[f]) = 1

InvertRaises(cell) == cell.device # "cuda" /\ Det(cell.data) = 0

Unspecified == [unspecified |-> TRUE]

(* the generator with the cell inverted ahead of the checks *)
GenerateKvectorsInvertFirst(ns, cell, for_ewald) ==
    IF cell.shape = <<3, 3>> /\ InvertRaises(cell)
    THEN [raised |-> "LinAlgError"]
    ELSE IF ns.shape # <<3>> THEN [raised |-> "ValueError"]
    ELSE IF cell.shape # <<3, 3>> THEN [raised |-> "ValueError"]
    ELSE IF ns.device # cell.device THEN [raised |-> "ValueError"]
    ELSE IF Det(cell.data) = 0 THEN [kvectors |-> Unspecified]
    ELSE [kvectors |-> IF for_ewald
                       THEN generate_kvectors_for_ewald(ns.data, cell.data)
                       ELSE generate_kvectors_for_mesh(ns.data, cell.data)]

(* _generate_kvectors through either public generator: the three checks, *)
(* the inversion, then the vectors                                       *)
GenerateKvectorsChecked(ns, cell, for_ewald) ==
    IF ns.shape # <<3>> THEN [raised |-> "ValueError"]
    ELSE IF cell.shape # <<3, 3>> THEN [raised |-> "ValueError"]
    ELSE IF ns.device # cell.device THEN [raised |-> "ValueError"]
    ELSE IF InvertRaises(cell) THEN [raised |-> "LinAlgError"]
    ELSE IF Det(cell.data) = 0 THEN [kvectors |-> Unspecified]
    ELSE [kvectors |-> IF for_ewald
                       THEN generate_kvectors_for_ewald(ns.data, cell.data)
                       ELSE generate_kvectors_for_mesh(ns.data, cell.data)]

(* ------------------------------------------------------------ inputs *)
SingularCell == Mat3(Vec3(1, 2, 0), Vec3(2, 4, 0), Vec3(0, 0, 1))

KvCellTensors ==
    {Tensor(dev, <<3, 3>>, cell) : dev \in Devices, cell \in Cells \cup {SingularCell}}
    \cup {Tensor(dev, shape, NoData) : dev \in Devices, shape \in {<<3>>, <<2, 3>>}}

KvNsTensors ==
    {Tensor(dev, <<3>>, ns) :
        dev \in Devices, ns \in {Vec3(1, 1, 1), Vec3(2, 3, 2), Vec3(3, 2, 4)}}
    \cup {Tensor(dev, shape, NoData) : dev \in Devices, shape \in {<<2>>, <<3, 1>>}}

(* ------------------------------------------------------- the machine *)
KvCheckedInit ==
    /\ \E ns \in KvNsTensors, cell \in KvCellTensors :
            kv = [op |-> "none", ns |-> ns, cell |-> cell]
    /\ calc = Unused
    /\ potential = Unused
    /\ fsc = Unused
    /\ conv = Unused
    /\ mi = Unused
    /\ dist = Unused
    /\ w1d = Unused
    /\ interp = Unused /\ computed = FALSE /\ ret = Unused

(* generate_kvectors_for_mesh(ns, cell) *)
CheckedGenerateKvectorsForMesh ==
    /\ kv.op = "none"
    /\ kv' = [op |-> "mesh", ns |-> kv.ns, cell |-> kv.cell]
                @@ GenerateKvectorsChecked(kv.ns, kv.cell, FALSE)
    /\ UNCHANGED <<interp, computed, ret, w1d, calc, potential, fsc, conv, mi, dist>>

(* generate_kvectors_for_ewald(ns, cell) *)
CheckedGenerateKvectorsForEwald ==
    /\ kv.op = "none"
    /\ kv' = [op |-> "ewald", ns |-> kv.ns, cell |-> kv.cell]
                @@ GenerateKvectorsChecked(kv.ns, kv.cell, TRUE)
    /\ UNCHANGED <<interp, computed, ret, w1d, calc, potential, fsc, conv, mi, dist>>

KvCheckedNext == CheckedGenerateKvectorsForMesh \/ CheckedGenerateKvectorsForEwald

SpecKvectorsChecked == KvCheckedInit /\ [][KvCheckedNext]_vars

(* C15: both generators raise a ValueError and return no vectors when ns *)
(* is not of shape (3,), when cell is not of shape (3,3) and when the    *)
(* two are on different devices, also for a cell that cannot be inverted *)
C15_GeneratorsReject ==
    (/\ kv.op # "none"
     /\ \/ kv.ns.shape # <<3>>
        \/ kv.cell.shape # <<3, 3>>
        \/ kv.ns.device # kv.cell.device)
        => (/\ "raised" \in DOMAIN kv
            /\ kv.raised = "ValueError"
            /\ "kvectors" \notin DOMAIN kv)

(* a singular cell on the cpu and an ns on another device: the device    *)
(* check answers, not the inversion                                      *)
C15_Witness ==
    /\ kv.op = "ewald"
    /\ kv.cell.shape = <<3, 3>>
    /\ kv.cell.device = "cpu"
    /\ Det(kv.cell.data) = 0
    /\ kv.ns.device = "cuda"
    /\ "raised" \in DOMAIN kv

(* ------------------------------ examples/2-neighbor-lists-usage.py *)
(* shifts @ cell with the cell transposed *)
ShiftsTimesCellTransposed(shift, cell) ==
    [j \in Axes |-> shift[0] * cell[j][0] + shift[1] * cell[j][1]
                        + shift[2] * cell[j][2]]

(* shifts @ cell for one row of shifts: sum_i shift[i] * cell[i] *)
ShiftsTimesCell(shift, cell) ==
    [j \in Axes |-> shift[0] * cell[0][j] + shift[1] * cell[1][j]
                        + shift[2] * cell[2][j]]

(* torch.linalg.norm(v): the square root, kept as the number under it *)
SqrtOf(v) == [sqrt_of |-> v[0] * v[0] + v[1] * v[1] + v[2] * v[2]]

(* distances(positions, neighbor_indices, cell, neighbor_shifts) *)
Distances(positions, neighbor_indices, cell, neighbor_shifts) ==
    LET pairs == DOMAIN neighbor_indices
        plain == [p \in pairs |-> [j \in Axes |->
                    positions[neighbor_indices[p][1]][j]
                        - positions[neighbor_indices[p][0]][j]]]
    IN  IF cell # None /\ neighbor_shifts # None
        THEN [distances |-> [p \in pairs |->
                SqrtOf([j \in Axes |->
                    plain[p][j] + ShiftsTimesCell(neighbor_shifts.data[p], cell.data)[j]])]]
        ELSE IF cell # None /\ neighbor_shifts = None
        THEN [raised |-> "ValueError"]
        ELSE IF cell = None /\ neighbor_shifts # None
        THEN [raised |-> "ValueError"]
        ELSE [distances |-> [p \in pairs |-> SqrtOf(plain[p])]]

(* ------------------------------------------------------------ inputs *)
(* an optional tensor that is given *)
Given(data) == [data |-> data]

DistancePositions ==
    { [i \in 0 .. 2 |-> Vec3(i, 2 * i, -i)],
      [i \in 0 .. 2 |-> Vec3(i * i, 1, 3 - i)] }

(* two pairs per list *)
NeighborLists ==
    { [p \in 0 .. 1 |-> [e \in 0 .. 1 |-> IF e = 0 THEN 0 ELSE p + 1]],
      [p \in 0 .. 1 |-> [e \in 0 .. 1 |-> IF e = 0 THEN 2 - p ELSE p]],
      [p \in 0 .. 1 |-> [e \in 0 .. 1 |-> p]] }

ShiftLists ==
    { [p \in 0 .. 1 |-> Vec3(0, 0, 0)],
      [p \in 0 .. 1 |-> Vec3(1 - p, p, -1)],
      [p \in 0 .. 1 |-> Vec3(-1, 2 * p, p)],
      [p \in 0 .. 1 |-> Vec3(p, -1, 1)] }

OptionalCells == {None} \cup {Given(cell) : cell \in Cells}
OptionalShifts == {None} \cup {Given(shifts) : shifts \in ShiftLists}

(* ------------------------------------------------------- the machine *)
DistInit ==
    /\ \E positions \in DistancePositions, neighbor_indices \in NeighborLists,
          cell \in OptionalCells, neighbor_shifts \in OptionalShifts :
            dist = [pc |-> "called", positions |-> positions,
                    neighbor_indices |-> neighbor_indices,
                    cell |-> cell, neighbor_shifts |-> neighbor_shifts]
    /\ calc = Unused
    /\ potential = Unused
    /\ fsc = Unused
    /\ conv = Unused
    /\ mi = Unused
    /\ kv = Unused
    /\ w1d = Unused
    /\ interp = Unused /\ computed = FALSE /\ ret = Unused

CallDistances ==
    /\ dist.pc = "called"
    /\ dist' = [dist EXCEPT !.pc = "done"]
                @@ Distances(dist.positions, dist.neighbor_indices,
                             dist.cell, dist.neighbor_shifts)
    /\ UNCHANGED <<interp, computed, ret, w1d, kv, calc, potential, fsc, conv, mi>>

DistNext == CallDistances

SpecDistances == DistInit /\ [][DistNext]_vars

(* pos_j - pos_i + s1 a1 + s2 a2 + s3 a3 for pair p, the a_i being the   *)
(* cell rows                                                             *)
Separation(p, s, a) ==
    LET i == dist.neighbor_indices[p][0]
        j == dist.neighbor_indices[p][1]
    IN  [c \in Axes |-> dist.positions[j][c] - dist.positions[i][c]
                            + s[0] * a[0][c] + s[1] * a[1][c] + s[2] * a[2][c]]

NoShift == Vec3(0, 0, 0)
UnitCell == Mat3(Vec3(1, 0, 0), Vec3(0, 1, 0), Vec3(0, 0, 1))

(* C16: a cell without neighbor_shifts and neighbor_shifts without a     *)
(* cell raise a ValueError; with both, the distance of a pair is         *)
(* |pos_j - pos_i + shift @ cell|; with neither, |pos_j - pos_i|         *)
C16_CellAndShiftsTogether ==
    dist.pc = "done" =>
        LET has_cell == dist.cell # None
            has_shifts == dist.neighbor_shifts # None
        IN  /\ has_cell # has_shifts =>
                /\ "raised" \in DOMAIN dist
                /\ dist.raised = "ValueError"
                /\ "distances" \notin DOMAIN dist
            /\ (has_cell /\ has_shifts) =>
                /\ "raised" \notin DOMAIN dist
                /\ \A p \in DOMAIN dist.neighbor_indices :
                    LET v == Separation(p, dist.neighbor_shifts.data[p],
                                        dist.cell.data)
                    IN  dist.distances[p].sqrt_of = v[0] * v[0] + v[1] * v[1] + v[2] * v[2]
            /\ (~has_cell /\ ~has_shifts) =>
                /\ "raised" \notin DOMAIN dist
                /\ \A p \in DOMAIN dist.neighbor_indices :
                    LET v == Separation(p, NoShift, UnitCell)
                    IN  dist.distances[p].sqrt_of = v[0] * v[0] + v[1] * v[1] + v[2] * v[2]

(* distances for a cell that is not symmetric and shifts that are not 0 *)
C16_Witness ==
    /\ dist.pc = "done"
    /\ "distances" \in DOMAIN dist
    /\ dist.cell # None
    /\ dist.cell.data[0][1] # dist.cell.data[1][0]
    /\ \E p \in DOMAIN dist.neighbor_shifts.data :
            dist.neighbor_shifts.data[p][0] # 0

(* --------------------------------------- Fourier-space convolution *)
(* The kernel G(k) is a function of the squared norms of the k-vectors   *)
(* of the mesh, of the smearing and of the exponent; it is kept as these *)
(* three, the squared norms in units of (2 pi)^2.                        *)
KnormSq(ns, cell) ==
    LET kvectors == generate_kvectors_for_mesh(ns, cell)
    IN  [ix \in DOMAIN kvectors |-> [iy \in DOMAIN kvectors[ix] |->
            [iz \in DOMAIN kvectors[ix][iy] |->
                Dot(kvectors[ix][iy][iz], kvectors[ix][iy][iz])]]]

(* what the kernel depends on: cell, mesh shape, smearing, exponent *)
CacheKey(mesh_values, cell, potential_exponent, atomic_smearing) ==
    [cell |-> cell,
     ns |-> Vec3(Cardinality(DOMAIN mesh_values[0]),
                 Cardinality(DOMAIN mesh_values[0][0]),
                 Cardinality(DOMAIN mesh_values[0][0][0])),
     atomic_smearing |-> atomic_smearing,
     potential_exponent |-> potential_exponent]

ComputeKernel(key) ==
    [knorm_sq |-> KnormSq(key.ns, key.cell),
     atomic_smearing |-> key.atomic_smearing,
     potential_exponent |-> key.potential_exponent]

(* a cache test that looks at the mesh shape, smearing and exponent only *)
SameKeyButCell(cache, key) ==
    /\ cache # None
    /\ cache.key.ns = key.ns
    /\ cache.key.atomic_smearing = key.atomic_smearing
    /\ cache.key.potential_exponent = key.potential_exponent

(* the cached kernel is reused unless the cell, the mesh shape, the      *)
(* smearing or the exponent changed                                      *)
CacheIsValid(cache, key) == cache # None /\ cache.key = key

(* irfftn(rfftn(mesh_values) * G): a function of the mesh and the kernel *)
Convolve(mesh_values, kernel) ==
    [mesh_values |-> mesh_values, kernel |-> kernel]

(* FourierSpaceConvolution(): nothing cached *)
FourierSpaceConvolutionInit == [cache |-> None]

(* compute on an instance: the instance after the call and the result *)
FscCompute(self, mesh_values, cell, potential_exponent, atomic_smearing) ==
    LET key == CacheKey(mesh_values, cell, potential_exponent, atomic_smearing)
        cache == IF CacheIsValid(self.cache, key) THEN self.cache
                 ELSE [key |-> key, kernel |-> ComputeKernel(key)]
    IN  [self |-> [self EXCEPT !.cache = cache],
         result |-> Convolve(mesh_values, cache.kernel)]

FscCells ==
    { Mat3(Vec3(2, 0, 0), Vec3(0, 2, 0), Vec3(0, 0, 2)),
      Mat3(Vec3(1, 0, 0), Vec3(0, 2, 0), Vec3(0, 0, 3)) }
FscShapes == {Vec3(1, 2, 2), Vec3(2, 1, 2)}
FscSmearings == {RInt(0), Rat(1, 2)}
FscExponents == {0, 1}

FscInit ==
    /\ fsc = FourierSpaceConvolutionInit
    /\ conv = [op |-> "__init__"]
    /\ mi = Unused
    /\ dist = Unused
    /\ interp = Unused
    /\ computed = FALSE
    /\ ret = Unused
    /\ w1d = Unused
    /\ kv = Unused
    /\ calc = Unused
    /\ potential = Unused

CallFscCompute ==
    /\ \E cell \in FscCells, ns \in FscShapes,
          atomic_smearing \in FscSmearings, potential_exponent \in FscExponents :
        \E mesh_values \in MeshValueSet(ns) :
            LET out == FscCompute(fsc, mesh_values, cell,
                                  potential_exponent, atomic_smearing)
            IN  /\ fsc' = out.self
                /\ conv' = [op |-> "compute",
                            mesh_values |-> mesh_values,
                            cell |-> cell,
                            potential_exponent |-> potential_exponent,
                            atomic_smearing |-> atomic_smearing,
                            cache_before |-> fsc.cache,
                            reused |-> (out.self.cache = fsc.cache),
                            result |-> out.result]
    /\ UNCHANGED <<interp, computed, ret, w1d, kv, calc, potential, mi, dist>>

FscNext == CallFscCompute

SpecFsc == FscInit /\ [][FscNext]_vars

(* C10: whatever was computed on the instance before, compute returns    *)
(* what a fresh instance returns for the same arguments                  *)
C10_SameAsFresh ==
    conv.op = "compute" =>
        conv.result =
            FscCompute(FourierSpaceConvolutionInit, conv.mesh_values, conv.cell,
                       conv.potential_exponent, conv.atomic_smearing).result

(* a call with another cell on the mesh shape, smearing and exponent of  *)
(* the call before it, which left its kernel in the cache                 *)
C10_Witness ==
    /\ conv.op = "compute"
    /\ ~conv.reused
    /\ conv.cache_before # None
    /\ conv.cache_before.key.cell # conv.cell
    /\ conv.cache_before.key.ns = fsc.cache.key.ns
    /\ conv.cache_before.key.atomic_smearing = conv.atomic_smearing
    /\ conv.cache_before.key.potential_exponent = conv.potential_exponent

(* ------------------------------------------------ 1-D weights *)
WeightsInit ==
    /\ \E order \in Orders, x \in Offsets :
            w1d = [pc |-> "none", order |-> order, x |-> x, weights |-> <<>>]
    /\ kv = Unused
    /\ calc = Unused
    /\ potential = Unused
    /\ fsc = Unused
    /\ conv = Unused
    /\ mi = Unused
    /\ dist = Unused
    /\ interp = Unused /\ computed = FALSE /\ ret = Unused

(* self._compute_1d_weights(x) on an interpolator of the given order *)
CallCompute1dWeights ==
    /\ w1d.pc = "none"
    /\ w1d' = [w1d EXCEPT !.pc = "done",
                          !.weights = Compute1dWeights(w1d.order, w1d.x)]
    /\ UNCHANGED <<interp, computed, ret, kv, calc, potential, fsc, conv, mi, dist>>

WeightsNext == CallCompute1dWeights

SpecWeights == WeightsInit /\ [][WeightsNext]_vars

(* C4: for every order 1..5 and every offset in [-1/2, 1/2] the `order`   *)
(* one-dimensional weights sum to exactly 1                               *)
C4_PartitionOfUnity ==
    w1d.pc = "done" =>
        /\ DOMAIN w1d.weights = 0 .. w1d.order - 1
        /\ SumTo(w1d.weights, w1d.order) = RInt(1)

C4_Witness ==
    /\ w1d.pc = "done"
    /\ w1d.order = 5
    /\ w1d.x = Rat(-1, 3)
    /\ w1d.weights[0] # w1d.weights[4]

(* ------------------------------------------------ Ewald calculator *)
EwaldSpecInit ==
    /\ \E a \in EwaldArgs : calc = [pc |-> "new", args |-> a]
    /\ potential = [pc |-> "none"]
    /\ fsc = Unused
    /\ conv = Unused
    /\ mi = Unused
    /\ dist = Unused
    /\ kv = Unused
    /\ w1d = Unused
    /\ interp = Unused /\ computed = FALSE /\ ret = Unused

(* EwaldPotential(...) *)
EwaldConstruct ==
    /\ calc.pc = "new"
    /\ calc' = EwaldInit(calc.args)
    /\ UNCHANGED <<interp, computed, ret, w1d, kv, potential, fsc, conv, mi, dist>>

(* EwaldPotential.compute on one system *)
EwaldCompute ==
    /\ calc.pc = "ready"
    /\ potential.pc = "none"
    /\ \E sys \in Systems, cell \in EwaldCells :
            potential' = ComputeSingleSystem(calc, sys, cell)
    /\ UNCHANGED <<interp, computed, ret, w1d, kv, calc, fsc, conv, mi, dist>>

EwaldNext == EwaldConstruct \/ EwaldCompute

SpecEwald == EwaldSpecInit /\ [][EwaldNext]_vars

(* ------------------------------------------------- Ewald properties *)
(* C1: the self term charges*c(sigma) is subtracted from the long-range   *)
(* potential if and only if the calculator's subtract_self is true        *)
C1_SelfTermIffSubtractSelf ==
    potential.pc = "done" =>
        \A i \in DOMAIN potential.sys.charges :
            \A a \in DOMAIN potential.sys.charges[i] :
                potential.potential_lr.energy[i][a].self_contrib =
                    IF calc.subtract_self
                    THEN RNeg(RInt(potential.sys.charges[i][a]))
                    ELSE RInt(0)

(* C11: a constructed calculator with subtract_interior has             *)
(* subtract_self = True whatever was passed; without subtract_interior   *)
(* the stored subtract_self is the argument                              *)
C11_InteriorImpliesSelf ==
    calc.pc = "ready" =>
        /\ calc.subtract_interior = calc.args.subtract_interior
        /\ calc.subtract_interior => calc.subtract_self = TRUE
        /\ ~calc.subtract_interior => calc.subtract_self = calc.args.subtract_self

(* constructed with subtract_interior = True and subtract_self = False *)
C11_Witness ==
    /\ calc.pc = "ready"
    /\ calc.args.subtract_interior
    /\ ~calc.args.subtract_self
    /\ calc.subtract_self

(* 0 < p <= 3 *)
InHalfOpenInterval(p) == RLt(RInt(0), p) /\ RLe(p, RInt(3))

(* C12: the constructor raises a ValueError, with no attribute set,      *)
(* exactly when the exponent is outside (0, 3]                           *)
C12_RejectsOutsideInterval ==
    /\ (calc.pc = "raised" /\ ~SmearingRejected(calc.args.atomic_smearing)) =>
            ~InHalfOpenInterval(calc.args.exponent)
    /\ (calc.pc # "new" /\ ~InHalfOpenInterval(calc.args.exponent)) =>
            /\ calc.pc = "raised"
            /\ calc.error = "ValueError"
            /\ DOMAIN calc = {"pc", "error", "args"}

(* C13: a given atomic_smearing <= 0 makes the constructor raise a       *)
(* ValueError; None and positive values are accepted, never the cause of *)
(* a rejection, and stored unchanged                                     *)
C13_SmearingCheck ==
    calc.pc # "new" =>
        LET given == calc.args.atomic_smearing
            positive == given # None /\ RLt(RInt(0), given)
        IN  /\ (given # None /\ ~positive) =>
                    calc.pc = "raised" /\ calc.error = "ValueError"
            /\ (given = None \/ positive) =>
                    \/ calc.pc = "ready" /\ calc.atomic_smearing = given
                    \/ calc.pc = "raised" /\ ExponentRejected(calc.args.exponent)

(* atomic_smearing = 0 with an exponent the constructor accepts *)
C13_Witness ==
    /\ calc.pc = "raised"
    /\ calc.args.atomic_smearing = RInt(0)
    /\ calc.args.exponent = RInt(1)

(* the lengths of the three cell vectors *)
CellDimensions(cell) == [i \in Axes |-> Norm(cell[i])]

Shortest(cell) ==
    CHOOSE l \in {CellDimensions(cell)[i] : i \in Axes} :
        \A i \in Axes : l <= CellDimensions(cell)[i]

(* the smearing and long-range resolution a computation used are the     *)
(* given ones, and the defaults are `derived` and half the smearing used *)
ParametersUsed(derived) ==
    /\ potential.smearing =
            IF calc.atomic_smearing = None THEN derived ELSE calc.atomic_smearing
    /\ potential.lr_wavelength =
            IF calc.lr_wavelength = None
            THEN RMul(Rat(1, 2), potential.smearing)
            ELSE calc.lr_wavelength

LatticeVector(cell, m) ==
    LET b == ReciprocalCell(cell)
    IN  VAdd(VAdd(VScale(RInt(m[0]), b[0]), VScale(RInt(m[1]), b[1])),
             VScale(RInt(m[2]), b[2]))

(* 2*pi/|k| >= wavelength for a wavelength > 0, i.e.                     *)
(* |k/(2*pi)|^2 * wavelength <= 1/wavelength                             *)
WavelengthAtLeast(k, wavelength) ==
    LET t == RMul(Dot(k, k), wavelength)
    IN  FracLe(t.n, t.d, wavelength.d, wavelength.n)

Multiples == -MaxMultiple .. MaxMultiple

(* C9: every reciprocal lattice vector with a wavelength >= lr_wavelength *)
(* is among the k-vectors of the long-range sum                           *)
C9_AllLongWavelengthsKept ==
    potential.pc = "done" =>
        LET kept == {potential.potential_lr.kvectors[f] :
                        f \in DOMAIN potential.potential_lr.kvectors}
        IN  \A mx \in Multiples, my \in Multiples, mz \in Multiples :
                LET k == LatticeVector(potential.cell, Vec3(mx, my, mz))
                IN  WavelengthAtLeast(k, potential.lr_wavelength) => k \in kept

(* ---------------------------------------------- k-vector properties *)
(* the inner products of k with the three cell vectors, divided by 2*pi *)
FrequencyTriple(cell, k) == MatVec(cell, k)

IntTriple(mx, my, mz) == Vec3(RInt(mx), RInt(my), RInt(mz))

CeilHalf(n) == (n + 1) \div 2
FloorHalf(n) == n \div 2

(* the signed frequency of index i in the fftfreq convention *)
SignedFrequency(i, n) == IF i < (n + 1) \div 2 THEN i ELSE i - n

EwaldTriples == {FrequencyTriple(kv.cell, kv.kvectors[f]) : f \in DOMAIN kv.kvectors}

(* C6 as stated: along each axis the list holds exactly the multiples m   *)
(* with -ceil(n/2) <= m < ceil(n/2), in all combinations                  *)
C6_CeilRange ==
    kv.op = "ewald" =>
        EwaldTriples =
            { IntTriple(mx, my, mz) :
                mx \in -CeilHalf(kv.ns[0]) .. CeilHalf(kv.ns[0]) - 1,
                my \in -CeilHalf(kv.ns[1]) .. CeilHalf(kv.ns[1]) - 1,
                mz \in -CeilHalf(kv.ns[2]) .. CeilHalf(kv.ns[2]) - 1 }

(* C6 amended: generate_kvectors_for_ewald lists, once each and flattened  *)
(* to nx*ny*nz vectors, exactly the combinations of the multiples m with   *)
(* -floor(n/2) <= m < ceil(n/2) along each axis (the fftfreq range)        *)
C6_FftRange ==
    kv.op = "ewald" =>
        /\ DOMAIN kv.kvectors = 0 .. kv.ns[0] * kv.ns[1] * kv.ns[2] - 1
        /\ \A f, g \in DOMAIN kv.kvectors :
                kv.kvectors[f] = kv.kvectors[g] => f = g
        /\ EwaldTriples =
            { IntTriple(mx, my, mz) :
                mx \in -FloorHalf(kv.ns[0]) .. CeilHalf(kv.ns[0]) - 1,
                my \in -FloorHalf(kv.ns[1]) .. CeilHalf(kv.ns[1]) - 1,
                mz \in -FloorHalf(kv.ns[2]) .. CeilHalf(kv.ns[2]) - 1 }

C6_Witness ==
    /\ kv.op = "ewald"
    /\ kv.ns = Vec3(3, 4, 1)
    /\ kv.cell[0][1] # 0
    /\ \E f \in DOMAIN kv.kvectors :
            FrequencyTriple(kv.cell, kv.kvectors[f]) = IntTriple(-1, -2, 0)

C8_Duality ==
    kv.op = "mesh" =>
        /\ \A ix \in 0 .. kv.ns[0] - 1, iy \in 0 .. kv.ns[1] - 1,
              iz \in 0 .. CeilHalf(kv.ns[2]) - 1 :
                FrequencyTriple(kv.cell, kv.kvectors[ix][iy][iz]) =
                    IntTriple(SignedFrequency(ix, kv.ns[0]),
                              SignedFrequency(iy, kv.ns[1]), iz)
        /\ kv.ns[0] >= 3 =>
                FrequencyTriple(kv.cell, kv.kvectors[1][0][0]) = IntTriple(1, 0, 0)
        /\ kv.ns[1] >= 3 =>
                FrequencyTriple(kv.cell, kv.kvectors[0][1][0]) = IntTriple(0, 1, 0)
        /\ kv.ns[2] >= 2 =>
                FrequencyTriple(kv.cell, kv.kvectors[0][0][1]) = IntTriple(0, 0, 1)

C8_Witness ==
    /\ kv.op = "mesh"
    /\ kv.ns = Vec3(4, 3, 3)
    /\ kv.cell[0][1] # 0
    /\ FrequencyTriple(kv.cell, kv.kvectors[2][2][1]) = IntTriple(-2, -1, 1)

(* C20: the flattened Ewald list has the zero vector at index 0 and at   *)
(* no other index, so G[0] names the k = 0 term and only that term       *)
C20_ZeroOnlyAtIndexZero ==
    kv.op = "ewald" =>
        \A f \in DOMAIN kv.kvectors :
            (FrequencyTriple(kv.cell, kv.kvectors[f]) = IntTriple(0, 0, 0)) <=> (f = 0)

(* a list of more than one vector for a cell that is not diagonal, with  *)
(* an even and an odd number of points among the axes                    *)
C20_Witness ==
    /\ kv.op = "ewald"
    /\ kv.ns = Vec3(2, 3, 4)
    /\ kv.cell[0][1] # 0
    /\ kv.kvectors[0] = ZeroVec


====
